---- MODULE Spec2Model ----
(***************************************************************************)
(* A model of the morph example of three-d (examples/morph/main.rs): the   *)
(* region growth compute_weights, the smoothstep falloff, picking,         *)
(* on_morph and the event/render loop of main.                             *)
(*                                                                         *)
(* Numbers.  The program computes in f64.  The model keeps the structure   *)
(* of binary floating point (a mantissa of Precision bits, round to        *)
(* nearest, ties to even) at a reduced width.  A squared distance is an    *)
(* integer count of 2^-Precision; the intermediate results of the          *)
(* smoothstep carry the unit their operation produces.  Vertex positions   *)
(* live on one axis and are integer counts of half a length unit.          *)
(***************************************************************************)
EXTENDS Integers, Sequences, FiniteSets

VARIABLES
    \* ---- the mesh (tri_mesh::mesh::Mesh) ----
    faces,              \* the triangles, each a set of three vertex ids
    position,           \* vertex id -> coordinate, in half units
    \* ---- one run of compute_weights ----
    start_vertex_id,    \* the seed vertex
    start_point,        \* the seed point, in half units
    weights,            \* the HashMap under construction: vertex id -> weight
    to_be_tested,       \* the work stack (a sequence, top at the end)
    visits,             \* vertex id -> how often it passed the gate (insert + expansion)
    cw_pc,              \* "idle" | "loop" | "done"
    \* ---- the falloff on its own ----
    sqr_d1, sqr_d2,     \* two squared distances
    w1, w2,             \* the falloff at each, -1 before it is evaluated
    sm_pc,              \* "input" | "done"
    \* ---- main ----
    main_weights,       \* let mut weights: Option<HashMap<VertexID, Vec3>>
    model_positions,    \* the positions the rendered model holds (f32)
    model_normals,      \* the normals the rendered model holds (f32)
    wireframe_positions,\* the positions the wireframe holds (f32)
    rotating,           \* camera_handler: a rotation is under way
    screenshot_path,    \* TRUE when a screenshot path was given
    event,              \* the event whose handler ran last
    n_events,           \* events handled so far
    move_calls,         \* vertex id -> move_vertex_by calls of the last on_morph
    last_left,          \* the most recent event of the left button: its state and
                        \* what its ray met
    main_pc,            \* "idle" | "events" | "shadow_pass" | "geometry_pass" |
                        \* "light_pass" | "exited"
    \* ---- pick on its own ----
    pick_hit,           \* what mesh.ray_intersection returns for the ray
    pick_result,        \* what pick returns
    pick_pc,            \* "idle" | "call" | "done"
    \* ---- window::Application (winit_window.rs) ----
    close_requested,    \* Application::close_requested
    control_flow,       \* the control flow of the event loop: "Poll" | "Wait"
    loop_exit,          \* event_loop.exit() was called
    frame_output,       \* the FrameOutput of the last callback
    swaps,              \* calls of gl.swap_buffers()
    redraws,            \* calls of window.request_redraw()
    n_window_events,    \* window events handled so far
    three_d_screenshot, \* THREE_D_SCREENSHOT was set when the crate was built
    call,               \* the handler called last and its event
    win_pc,             \* "idle" | "running" | "exited"
    \* ---- dust::Shader (shader.rs) ----
    gl_created,         \* the ids gl.CreateShader has returned
    gl_deleted,         \* id -> calls of gl.DeleteShader(id)
    shaders,            \* the ids held by the Shader values that are alive
    sh_result,          \* what the last from_source returned
    sh_pc               \* "idle" | "running"

mesh_vars == <<faces, position>>
run_vars == <<start_vertex_id, start_point, weights, to_be_tested, visits, cw_pc>>
cw_vars == <<mesh_vars, run_vars>>
sm_vars == <<sqr_d1, sqr_d2, w1, w2, sm_pc>>
main_vars == <<main_weights, model_positions, model_normals, wireframe_positions,
               rotating, screenshot_path, event, n_events, move_calls, last_left,
               main_pc>>
pick_vars == <<pick_hit, pick_result, pick_pc>>
win_vars == <<close_requested, control_flow, loop_exit, frame_output, swaps, redraws,
              n_window_events, three_d_screenshot, call, win_pc>>
sh_vars == <<gl_created, gl_deleted, shaders, sh_result, sh_pc>>
ext_vars == <<pick_vars, win_vars, sh_vars>>
vars == <<cw_vars, sm_vars, main_vars, ext_vars>>

----------------------------------------------------------------------------
(* Bounds of the model *)

\* Mantissa bits of the modelled floating point format (53 in f64).
Precision == 6

\* Vertices of the largest mesh.
NumVertices == 4

----------------------------------------------------------------------------
(* Floating point *)

RECURSIVE Pow2(_)
Pow2(n) == IF n = 0 THEN 1 ELSE 2 * Pow2(n - 1)

RECURSIVE Bits(_)
\* The number of binary digits of n >= 0.
Bits(n) == IF n = 0 THEN 0 ELSE 1 + Bits(n \div 2)

\* n rounded to Precision significant bits, to nearest, ties to even, for a
\* given n >= 0.  The result counts the same unit as n.
RoundBits(n) ==
    IF Bits(n) <= Precision THEN n
    ELSE LET s == Bits(n) - Precision
             q == n \div Pow2(s)
             r == n % Pow2(s)
             h == Pow2(s - 1)
             up == r > h \/ (r = h /\ q % 2 = 1)
         IN  (IF up THEN q + 1 ELSE q) * Pow2(s)

\* The rounding every f64 operation ends with.  The operand is evaluated once.
FRound(n) == CHOOSE r \in {RoundBits(v) : v \in {n}} : TRUE

\* 1.0 counted in 2^-Precision, the unit of squared distances.
One == Pow2(Precision)

\* 1.0 counted in 2^-(3*Precision), the unit of the falloff's result.
WOne == Pow2(3 * Precision)

----------------------------------------------------------------------------
(* compute_weights: the gate constant and the falloff *)

\* The gate constant had MAX_DISTANCE been 0.5: 0.25.
SqrMaxDistanceQuarter == One \div 4

\* static SQR_MAX_DISTANCE: f64 = 1.0
SQR_MAX_DISTANCE == One

\* The falloff without the leading "1.0 -": rises from 0 to 1.
SmoothstepRising(sqr_distance) ==
    LET x == FRound((sqr_distance * One) \div SQR_MAX_DISTANCE)
        xx == FRound(x * x)
        t == FRound(3 * One - FRound(2 * x))
    IN  FRound(xx * t)

\* let smoothstep_function = |sqr_distance| { let x = sqr_distance / SQR_MAX_DISTANCE;
\*                                            1.0 - x*x*(3.0 - 2.0 * x) };
\* Each operation rounds.  x counts 2^-Precision, x*x counts 2^-(2*Precision),
\* the product and the result count 2^-(3*Precision).
smoothstep_function(sqr_distance) ==
    LET x == FRound((sqr_distance * One) \div SQR_MAX_DISTANCE)
        xx == FRound(x * x)
        t == FRound(3 * One - FRound(2 * x))
        p == FRound(xx * t)
    IN  FRound(WOne - p)

----------------------------------------------------------------------------
(* The falloff evaluated at two squared distances *)

SmInit ==
    /\ sqr_d1 \in 0..One
    /\ sqr_d2 \in 0..One
    /\ w1 = -1
    /\ w2 = -1
    /\ sm_pc = "input"

SmIdle ==
    /\ sqr_d1 = 0
    /\ sqr_d2 = 0
    /\ w1 = -1
    /\ w2 = -1
    /\ sm_pc = "input"

Evaluate ==
    /\ sm_pc = "input"
    /\ w1' = smoothstep_function(sqr_d1)
    /\ w2' = smoothstep_function(sqr_d2)
    /\ sm_pc' = "done"
    /\ UNCHANGED <<sqr_d1, sqr_d2>>

----------------------------------------------------------------------------
(* The mesh *)

VertexID == 1..NumVertices

\* Every triangle over the vertex ids.
Triangles == {f \in SUBSET VertexID : Cardinality(f) = 3}

\* The faces of a mesh that hold both ends of the edge {a, b}.
FacesOfEdge(fs, a, b) == {f \in fs : a \in f /\ b \in f}

\* The triangle meshes over the vertex ids: at least one face and no edge
\* shared by more than two faces (closed surfaces and surfaces with a boundary).
Meshes ==
    {fs \in SUBSET Triangles :
        /\ fs # {}
        /\ \A a \in VertexID : \A b \in VertexID \ {a} :
               Cardinality(FacesOfEdge(fs, a, b)) <= 2}

\* The vertices of a mesh.
Vertices(fs) == UNION fs

\* The closed surface over four vertices.
IsTetrahedron(fs) ==
    \E S \in SUBSET VertexID :
        /\ Cardinality(S) = 4
        /\ fs = {f \in SUBSET S : Cardinality(f) = 3}

\* mesh.vertex_halfedge_iter(vertex_id) followed by
\* mesh.walker_from_halfedge(halfedge_id).vertex_id(): the vertices at the other
\* end of the half-edges that leave vertex_id, each once.
Neighbours(fs, vertex_id) ==
    {u \in Vertices(fs) \ {vertex_id} : FacesOfEdge(fs, vertex_id, u) # {}}

\* Coordinates a vertex or a seed point starts at: 0, 0.5 and 1.0 (half units).
Coords == 0..2

Sign(n) == IF n > 0 THEN 1 ELSE IF n < 0 THEN -1 ELSE 0

\* The normal at a vertex whose neighbours are N: a unit vector of the axis
\* (1 or -1) that points away from the side most neighbours lie on, 0 where
\* the neighbourhood is balanced.
NormalAmong(pos, vertex_id, N) ==
    Sign(Cardinality({u \in N : pos[u] < pos[vertex_id]})
         - Cardinality({u \in N : pos[u] > pos[vertex_id]}))

\* mesh.vertex_normal(vertex_id).  It depends on the positions, so a displaced
\* vertex changes the normals around it.
VertexNormal(fs, pos, vertex_id) ==
    CHOOSE n \in {NormalAmong(pos, vertex_id, N) : N \in {Neighbours(fs, vertex_id)}} : TRUE

\* The squared distance measured from the seed vertex instead of the seed point.
distance2FromSeedVertex(a, b) ==
    FRound((position[start_vertex_id] - b) * (position[start_vertex_id] - b) * (One \div 4))

\* start_point.distance2(*mesh.vertex_position(vertex_id)): the arguments count
\* half units, their squared difference counts quarters and is rounded as an
\* f64 result is; the result counts 2^-Precision.
distance2(a, b) == FRound((a - b) * (a - b) * (One \div 4))

----------------------------------------------------------------------------
(* compute_weights, one loop iteration at a time *)

\* if sqr_distance <= SQR_MAX_DISTANCE: the gate with the boundary let in.
GateInclusive(sqr_distance) == sqr_distance <= SQR_MAX_DISTANCE

\* if sqr_distance < SQR_MAX_DISTANCE
Gate(sqr_distance) == sqr_distance < SQR_MAX_DISTANCE

\* An insert that adds to the value already stored instead of replacing it.
InsertAccumulate(w, vertex_id, weight) ==
    [v \in DOMAIN w \cup {vertex_id} |->
        IF v = vertex_id
        THEN (IF v \in DOMAIN w THEN w[v] + weight ELSE weight)
        ELSE w[v]]

\* weights.insert(vertex_id, weight): HashMap::insert replaces a stored value.
Insert(w, vertex_id, weight) ==
    [v \in DOMAIN w \cup {vertex_id} |-> IF v = vertex_id THEN weight ELSE w[v]]

\* smoothstep_function(sqr_distance) * mesh.vertex_normal(vertex_id)
WeightOf(fs, pos, point, vertex_id) ==
    smoothstep_function(distance2(point, pos[vertex_id])) * VertexNormal(fs, pos, vertex_id)

\* The test with its negation lost: if weights.contains_key(&neighbour_vertex_id)
ShouldPushWeighted(w, stack, neighbour_vertex_id) == neighbour_vertex_id \in DOMAIN w

\* if !weights.contains_key(&neighbour_vertex_id)
ShouldPush(w, stack, neighbour_vertex_id) == neighbour_vertex_id \notin DOMAIN w

\* A removal that leaves the element in the list (last() where pop() is meant).
RemoveAtKeep(stack, i) == stack

\* The work list without its i-th element; to_be_tested.pop() removes the last.
RemoveAt(stack, i) ==
    [j \in 1..(Len(stack) - 1) |-> IF j < i THEN stack[j] ELSE stack[j + 1]]

\* The sequences that hold each element of the set S once.
Permutations(S) ==
    {s \in [1..Cardinality(S) -> S] : \A i, j \in 1..Cardinality(S) : s[i] = s[j] => i = j}

\* The orders in which an iterator can yield the elements of S, each once.
Orders(S) == UNION {Permutations(T) : T \in {S}}

\* How often v occurs in the list.
Count(stack, v) == Cardinality({i \in 1..Len(stack) : stack[i] = v})

EmptyMap == [v \in {} |-> 0]

CwInit ==
    /\ faces \in Meshes
    /\ position \in [Vertices(faces) -> Coords]
    /\ start_vertex_id \in Vertices(faces)
    /\ start_point = 0
    /\ weights = EmptyMap
    /\ to_be_tested = <<start_vertex_id>>
    /\ visits = [v \in Vertices(faces) |-> 0]
    /\ cw_pc = "loop"

\* One iteration of "while let Some(vertex_id) = to_be_tested.pop()" that takes
\* the i-th pending vertex and finds it within the gate: it is weighted and its
\* neighbours that have no weight yet are pushed, in the order the iterator
\* yields them.
ExpandAt(i) ==
    /\ cw_pc = "loop"
    /\ i \in 1..Len(to_be_tested)
    /\ LET vertex_id == to_be_tested[i]
           rest == RemoveAt(to_be_tested, i)
           sqr_distance == distance2(start_point, position[vertex_id])
       IN  /\ Gate(sqr_distance)
           /\ weights' = Insert(weights, vertex_id,
                                WeightOf(faces, position, start_point, vertex_id))
           /\ \E order \in Orders({n \in Neighbours(faces, vertex_id) :
                                       ShouldPush(weights', rest, n)}) :
                  to_be_tested' = rest \o order
           /\ visits' = [visits EXCEPT ![vertex_id] = @ + 1]
    /\ UNCHANGED <<faces, position, start_vertex_id, start_point, cw_pc>>

\* One iteration that takes the i-th pending vertex and finds it at or beyond
\* the gate: it is dropped.
DiscardAt(i) ==
    /\ cw_pc = "loop"
    /\ i \in 1..Len(to_be_tested)
    /\ ~Gate(distance2(start_point, position[to_be_tested[i]]))
    /\ to_be_tested' = RemoveAt(to_be_tested, i)
    /\ UNCHANGED <<faces, position, start_vertex_id, start_point, weights, visits, cw_pc>>

\* The code: the vertex popped is the last one pushed.
Expand == ExpandAt(Len(to_be_tested)) /\ UNCHANGED <<sm_vars, main_vars, ext_vars>>
Discard == DiscardAt(Len(to_be_tested)) /\ UNCHANGED <<sm_vars, main_vars, ext_vars>>

\* The loop ends when pop() returns None; weights is returned.
Return ==
    /\ cw_pc = "loop"
    /\ to_be_tested = <<>>
    /\ cw_pc' = "done"
    /\ UNCHANGED <<faces, position, start_vertex_id, start_point, weights,
                   to_be_tested, visits>>
    /\ UNCHANGED <<sm_vars, main_vars, ext_vars>>

\* A reimplementation that may take any pending vertex next (a queue takes the first).
ExpandAny == (\E i \in 1..Len(to_be_tested) : ExpandAt(i)) /\ UNCHANGED <<sm_vars, main_vars, ext_vars>>
DiscardAny == (\E i \in 1..Len(to_be_tested) : DiscardAt(i)) /\ UNCHANGED <<sm_vars, main_vars, ext_vars>>

CwNext == Expand \/ Discard \/ Return
CwAnyNext == ExpandAny \/ DiscardAny \/ Return

\* Some(HashMap::new()) where None is meant.
SomeEmptyMap == [is_some |-> TRUE, map |-> [v \in {} |-> 0]]

\* Option<HashMap<VertexID, Vec3>>
None == [is_some |-> FALSE, map |-> EmptyMap]
Some(w) == [is_some |-> TRUE, map |-> w]

\* No intersection of the ray and the mesh.
NoHit == [kind |-> "none", primitive |-> "-", face |-> {}, halfedge |-> <<>>,
          vertex |-> 0, point |-> 0]

\* No event handled yet.
NoEvent == [kind |-> "-", state |-> "-", button |-> "-", hit |-> NoHit, delta |-> 0]

\* main is not running.
MainIdle ==
    /\ main_weights = None
    /\ model_positions = EmptyMap
    /\ model_normals = EmptyMap
    /\ wireframe_positions = EmptyMap
    /\ rotating = FALSE
    /\ screenshot_path = FALSE
    /\ event = NoEvent
    /\ n_events = 0
    /\ move_calls = EmptyMap
    /\ last_left = [state |-> "-", hit |-> "none"]
    /\ main_pc = "idle"

\* pick is not called.
PickIdle ==
    /\ pick_hit = NoHit
    /\ pick_result = [is_some |-> FALSE, vertex_id |-> 0, point |-> 0]
    /\ pick_pc = "idle"

\* No callback has returned yet.
NoFrameOutput == [exit |-> FALSE, swap_buffers |-> FALSE, wait_next_event |-> FALSE]

\* No event loop runs.
WinIdle ==
    /\ close_requested = FALSE
    /\ control_flow = "Wait"
    /\ loop_exit = FALSE
    /\ frame_output = NoFrameOutput
    /\ swaps = 0
    /\ redraws = 0
    /\ n_window_events = 0
    /\ three_d_screenshot = FALSE
    /\ call = "-"
    /\ win_pc = "idle"

\* No shader was made.
ShIdle ==
    /\ gl_created = {}
    /\ gl_deleted = [id \in {} |-> 0]
    /\ shaders = {}
    /\ sh_result = "-"
    /\ sh_pc = "idle"

InitWeights == CwInit /\ SmIdle /\ MainIdle /\ PickIdle /\ WinIdle /\ ShIdle

\* compute_weights as the code runs it.
SpecWeights == InitWeights /\ [][CwNext]_vars

\* compute_weights with the work list taken in any order.
SpecAnyOrder == InitWeights /\ [][CwAnyNext]_vars

RECURSIVE Asc(_)
\* The elements of a set of vertex ids in ascending order.
Asc(S) ==
    IF S = {} THEN <<>>
    ELSE LET m == CHOOSE x \in S : \A y \in S : x <= y
         IN  <<m>> \o Asc(S \ {m})

RECURSIVE CwLoop(_, _, _, _, _)
\* The while loop of compute_weights run to its end from the map w and the
\* stack given, the iterator yielding the neighbours in ascending order.
CwLoop(fs, pos, point, w, stack) ==
    IF stack = <<>> THEN w
    ELSE LET vertex_id == stack[Len(stack)]
             rest == RemoveAt(stack, Len(stack))
         IN  IF Gate(distance2(point, pos[vertex_id]))
             THEN LET inserted == Insert(w, vertex_id, WeightOf(fs, pos, point, vertex_id))
                  IN  CwLoop(fs, pos, point, inserted,
                             rest \o Asc({n \in Neighbours(fs, vertex_id) :
                                              ShouldPush(inserted, rest, n)}))
             ELSE CwLoop(fs, pos, point, w, rest)

\* fn compute_weights(mesh, start_vertex_id, start_point) -> HashMap<VertexID, Vec3>
compute_weights(fs, pos, vertex_id, point) == CwLoop(fs, pos, point, EmptyMap, <<vertex_id>>)

----------------------------------------------------------------------------
(* The falloff on its own *)

RunIdle ==
    /\ start_vertex_id = 1
    /\ start_point = 0
    /\ weights = EmptyMap
    /\ to_be_tested = <<>>
    /\ visits = [v \in Vertices(faces) |-> 0]
    /\ cw_pc = "idle"

CwIdle ==
    /\ faces = {{1, 2, 3}}
    /\ position = [v \in {1, 2, 3} |-> 0]
    /\ start_vertex_id = 1
    /\ start_point = 0
    /\ weights = EmptyMap
    /\ to_be_tested = <<>>
    /\ visits = [v \in {1, 2, 3} |-> 0]
    /\ cw_pc = "idle"

SmNext == Evaluate /\ UNCHANGED <<cw_vars, main_vars, ext_vars>>

InitSmoothstep == SmInit /\ CwIdle /\ MainIdle /\ PickIdle /\ WinIdle /\ ShIdle

SpecSmoothstep == InitSmoothstep /\ [][SmNext]_vars

----------------------------------------------------------------------------
(* pick, on_click, on_morph *)

\* Events handled in one run of the model.
MaxEvents == 3

\* "*v as f32": an f64 on the half-unit grid becomes the nearest f32, whose
\* grid is the whole units; halfway between two of them the one with the even
\* mantissa is taken.
AsF32(p) ==
    LET q == p \div 2
    IN  IF p % 2 = 0 THEN p
        ELSE IF q % 2 = 0 THEN 2 * q ELSE 2 * (q + 1)

\* A conversion that keeps the f64 value.
AsF32Exact(p) == p

\* mesh.positions_buffer(): the coordinate of every vertex (half units).
positions_buffer(fs, pos) == [v \in Vertices(fs) |-> pos[v]]

\* mesh.normals_buffer(): the normal of every vertex, counted in halves as the
\* positions are (a unit normal is 2 or -2).
normals_buffer(fs, pos) == [v \in Vertices(fs) |-> 2 * VertexNormal(fs, pos, v)]

\* .iter().map(|v| *v as f32).collect()
ToF32(buffer) == [v \in DOMAIN buffer |-> AsF32(buffer[v])]

\* The directed edges of the mesh: <<a, b>> runs from a to b.
HalfEdges(fs) ==
    {e \in Vertices(fs) \X Vertices(fs) : e[1] # e[2] /\ FacesOfEdge(fs, e[1], e[2]) # {}}

Min(S) == CHOOSE x \in S : \A y \in S : x <= y
Max(S) == CHOOSE x \in S : \A y \in S : x >= y

\* A point in the middle of the vertices S (half units).
Middle(pos, S) == (Min({pos[v] : v \in S}) + Max({pos[v] : v \in S})) \div 2

\* Intersection::Point {primitive, point}.  For a face, vertex is the vertex
\* the walker of the face stands at; for an edge, halfedge is the half-edge hit;
\* for a vertex, vertex is the vertex hit.
PointHit(primitive, f, e, v, point) ==
    [kind |-> "point", primitive |-> primitive, face |-> f, halfedge |-> e,
     vertex |-> v, point |-> point]

\* An intersection that is not a single point.
OtherHit == [NoHit EXCEPT !.kind = "other"]

\* What mesh.ray_intersection(ray_start_point, ray_direction) can return for
\* some ray: nothing, an intersection that is not a point, or a point of a
\* face, of an edge or at a vertex.
RayIntersections(fs, pos) ==
    {NoHit, OtherHit}
    \cup {PointHit("Face", f, <<>>, v, Middle(pos, f)) : <<f, v>> \in {fv \in fs \X Vertices(fs) : fv[2] \in fv[1]}}
    \cup {PointHit("Edge", {}, e, 0, Middle(pos, {e[1], e[2]})) : e \in HalfEdges(fs)}
    \cup {PointHit("Vertex", {}, <<>>, v, pos[v]) : v \in Vertices(fs)}

\* mesh.walker_from_face(face_id).vertex_id().unwrap()
WalkerFromFaceVertex(hit) == hit.vertex

\* mesh.edge_vertices(halfedge_id): the vertex the half-edge points at, then
\* the vertex its twin points at.
edge_vertices(e) == <<e[2], e[1]>>

\* A pick that answers with a vertex whatever the ray met.
PickAlways(fs, pos, hit) ==
    [is_some |-> TRUE, vertex_id |-> Min(Vertices(fs)), point |-> hit.point]

\* A pick that answers with the position of the vertex in place of the point hit.
PickAtVertex(fs, pos, hit) ==
    IF hit.kind = "point"
    THEN LET vertex_id == CASE hit.primitive = "Face" -> hit.vertex
                            [] hit.primitive = "Edge" -> hit.halfedge[2]
                            [] hit.primitive = "Vertex" -> hit.vertex
         IN  [is_some |-> TRUE, vertex_id |-> vertex_id, point |-> pos[vertex_id]]
    ELSE [is_some |-> FALSE, vertex_id |-> 0, point |-> 0]

\* fn pick(mesh, ray_start_point, ray_direction) -> Option<(VertexID, Vec3)>
pick(fs, pos, hit) ==
    IF hit.kind = "point"
    THEN [is_some |-> TRUE,
          vertex_id |-> CASE hit.primitive = "Face" -> WalkerFromFaceVertex(hit)
                          [] hit.primitive = "Edge" -> edge_vertices(hit.halfedge)[1]
                          [] hit.primitive = "Vertex" -> hit.vertex,
          point |-> hit.point]
    ELSE [is_some |-> FALSE, vertex_id |-> 0, point |-> 0]

\* pick is called with a ray that meets some mesh in some way; the vertices lie
\* along the axis in the order of their ids, 0.5 apart, from the third on together.
PickInit ==
    /\ faces \in Meshes
    /\ position = [v \in Vertices(faces) |-> IF v < 3 THEN v - 1 ELSE 2]
    /\ RunIdle
    /\ pick_hit \in RayIntersections(faces, position)
    /\ pick_result = [is_some |-> FALSE, vertex_id |-> 0, point |-> 0]
    /\ pick_pc = "call"

InitPick == PickInit /\ SmIdle /\ MainIdle /\ WinIdle /\ ShIdle

\* The call of pick.
Pick ==
    /\ pick_pc = "call"
    /\ pick_result' = pick(faces, position, pick_hit)
    /\ pick_pc' = "done"
    /\ UNCHANGED <<cw_vars, sm_vars, main_vars, pick_hit, win_vars, sh_vars>>

\* pick on its own.
SpecPick == InitPick /\ [][Pick]_vars

\* fn on_click(mesh, ray_start_point, ray_direction) -> Option<HashMap<VertexID, Vec3>>
on_click(fs, pos, hit) ==
    LET picked == pick(fs, pos, hit)
    IN  IF picked.is_some
        THEN Some(compute_weights(fs, pos, picked.vertex_id, picked.point))
        ELSE None

\* The mouse movements of the model (delta.1, in pixels).
MotionDeltas == {-16000, 0, 16000}

\* 0.001 * delta.1, counted in half units; exact for the deltas of the model,
\* as the f64 product is.
Factor(delta) == (delta * 2) \div 1000

\* A displacement by the factor alone, whatever the weight.
ScaleByFactorOnly(weight, factor) == factor

\* weight * factor: the weight counts 2^-(3 * Precision), the product counts
\* half units.  Every weight of the model times a factor of the model is a
\* whole number of half units, so no rounding takes place.
Scale(weight, factor) == (weight * factor) \div WOne

\* A displacement that puts the vertex at delta instead of moving it by delta.
MoveVertexTo(mesh, vertex_id, delta) ==
    [pos |-> [mesh.pos EXCEPT ![vertex_id] = delta],
     calls |-> [mesh.calls EXCEPT ![vertex_id] = @ + 1]]

\* mesh.move_vertex_by(vertex_id, delta); calls counts the calls per vertex.
move_vertex_by(mesh, vertex_id, delta) ==
    [pos |-> [mesh.pos EXCEPT ![vertex_id] = @ + delta],
     calls |-> [mesh.calls EXCEPT ![vertex_id] = @ + 1]]

RECURSIVE OnMorphLoop(_, _, _, _)
\* for (vertex_id, weight) in weights.iter() { mesh.move_vertex_by(..) },
\* the iterator yielding the keys in the order keys.
OnMorphLoop(mesh, w, keys, factor) ==
    IF keys = <<>> THEN mesh
    ELSE OnMorphLoop(move_vertex_by(mesh, Head(keys), Scale(w[Head(keys)], factor)),
                     w, Tail(keys), factor)

\* fn on_morph(mesh, weights, factor)
on_morph(pos, w, keys, factor) ==
    OnMorphLoop([pos |-> pos, calls |-> [v \in DOMAIN pos |-> 0]], w, keys, factor)

----------------------------------------------------------------------------
(* main: the event loop and the render passes *)

\* The meshes main is run on: the closed surface over the vertices 1..4 and
\* two triangles that share an edge.
MainMeshes ==
    {{f \in SUBSET (1..4) : Cardinality(f) = 3}, {{1, 2, 3}, {2, 3, 4}}}

\* The vertices lie along the axis in the order of their ids, 0.5 apart, the
\* last two together.
MainPosition(fs) == [v \in Vertices(fs) |-> IF v < 3 THEN v - 1 ELSE 2]

\* The state when render_loop is entered: the mesh is loaded, the models hold
\* the f32 buffers and weights is None.
MainInit ==
    /\ faces \in MainMeshes
    /\ position = MainPosition(faces)
    /\ RunIdle
    /\ main_weights = None
    /\ model_positions = ToF32(positions_buffer(faces, position))
    /\ model_normals = ToF32(normals_buffer(faces, position))
    /\ wireframe_positions = ToF32(positions_buffer(faces, position))
    /\ rotating = FALSE
    /\ screenshot_path \in BOOLEAN
    /\ event = NoEvent
    /\ n_events = 0
    /\ move_calls = [v \in Vertices(faces) |-> 0]
    /\ last_left = [state |-> "-", hit |-> "none"]
    /\ main_pc = "events"

InitMain == MainInit /\ SmIdle /\ PickIdle /\ WinIdle /\ ShIdle

\* The handler of the next event starts.
Handle(e) ==
    /\ main_pc = "events"
    /\ n_events < MaxEvents
    /\ n_events' = n_events + 1
    /\ event' = e
    /\ last_left' = IF e.kind = "MouseClick" /\ e.button = "Left"
                    THEN [state |-> e.state, hit |-> e.hit.kind]
                    ELSE last_left
    /\ UNCHANGED <<faces, run_vars, sm_vars, ext_vars, screenshot_path, main_pc>>

\* Event::Key {state, kind}: Tab switches the camera state, which the model
\* does not hold.
Key ==
    /\ \E state \in {"Pressed", "Released"} :
           Handle([NoEvent EXCEPT !.kind = "Key", !.state = state])
    /\ UNCHANGED <<position, main_weights, model_positions, model_normals,
                   wireframe_positions, rotating, move_calls>>

\* Event::MouseClick, left button pressed: the ray is cast, weights becomes
\* the result of on_click and the camera starts to rotate when it is None.
LeftPressed ==
    /\ \E hit \in RayIntersections(faces, position) :
           /\ Handle([NoEvent EXCEPT !.kind = "MouseClick", !.state = "Pressed",
                                     !.button = "Left", !.hit = hit])
           /\ main_weights' = on_click(faces, position, hit)
    /\ rotating' = IF main_weights'.is_some THEN rotating ELSE TRUE
    /\ UNCHANGED <<position, model_positions, model_normals, wireframe_positions,
                   move_calls>>

\* Event::MouseClick, left button released.
LeftReleased ==
    /\ Handle([NoEvent EXCEPT !.kind = "MouseClick", !.state = "Released",
                              !.button = "Left"])
    /\ main_weights' = None
    /\ rotating' = FALSE
    /\ UNCHANGED <<position, model_positions, model_normals, wireframe_positions,
                   move_calls>>

\* Event::MouseClick, another button: nothing is done.
OtherClick ==
    /\ \E button \in {"Middle", "Right"} : \E state \in {"Pressed", "Released"} :
           Handle([NoEvent EXCEPT !.kind = "MouseClick", !.state = state,
                                  !.button = button])
    /\ UNCHANGED <<position, main_weights, model_positions, model_normals,
                   wireframe_positions, rotating, move_calls>>

\* Event::MouseWheel {delta}: the camera zooms.
MouseWheel ==
    /\ Handle([NoEvent EXCEPT !.kind = "MouseWheel"])
    /\ UNCHANGED <<position, main_weights, model_positions, model_normals,
                   wireframe_positions, rotating, move_calls>>

\* model.update_normals that leaves the model as it is.
UpdateNormalsSkipped(old, normals) == old

\* model.update_positions(&positions), wireframe_model.update_positions(&positions)
update_positions(old, positions) == positions

\* model.update_normals(&normals)
update_normals(old, normals) == normals

\* Event::MouseMotion {delta}: with weights the mesh is morphed, both buffers
\* are read again and uploaded to the models.
MouseMotion ==
    \E delta \in MotionDeltas :
        /\ Handle([NoEvent EXCEPT !.kind = "MouseMotion", !.delta = delta])
        /\ IF main_weights.is_some
           THEN \E keys \in Orders(DOMAIN main_weights.map) :
                    LET morphed == on_morph(position, main_weights.map, keys, Factor(delta))
                    IN  /\ position' = morphed.pos
                        /\ move_calls' = morphed.calls
                        /\ wireframe_positions' =
                               update_positions(wireframe_positions,
                                                ToF32(positions_buffer(faces, position')))
                        /\ model_positions' =
                               update_positions(model_positions,
                                                ToF32(positions_buffer(faces, position')))
                        /\ model_normals' =
                               update_normals(model_normals,
                                              ToF32(normals_buffer(faces, position')))
           ELSE UNCHANGED <<position, model_positions, model_normals,
                            wireframe_positions, move_calls>>
        /\ UNCHANGED <<main_weights, rotating>>

\* A step of the render loop that leaves everything but its position.
Pass(to) ==
    /\ main_pc' = to
    /\ UNCHANGED <<cw_vars, sm_vars, ext_vars, main_weights, model_positions, model_normals,
                   wireframe_positions, rotating, screenshot_path, event, n_events,
                   move_calls, last_left>>

\* The events of the frame are handled; the shadow pass starts.
EndEvents == main_pc = "events" /\ Pass("shadow_pass")

\* renderer.shadow_pass renders the model.
ShadowPass == main_pc = "shadow_pass" /\ Pass("geometry_pass")

\* renderer.geometry_pass renders the model, the plane and the wireframe.
GeometryPass == main_pc = "geometry_pass" /\ Pass("light_pass")

\* renderer.light_pass; the callback returns and is called for the next frame.
LightPass == main_pc = "light_pass" /\ ~screenshot_path /\ Pass("events")

\* renderer.light_pass with a screenshot path: the process exits.
Screenshot == main_pc = "light_pass" /\ screenshot_path /\ Pass("exited")

Next ==
    \/ Key
    \/ LeftPressed
    \/ LeftReleased
    \/ OtherClick
    \/ MouseWheel
    \/ MouseMotion
    \/ EndEvents
    \/ ShadowPass
    \/ GeometryPass
    \/ LightPass
    \/ Screenshot

\* main, from the first call of the render loop's callback.
Spec == InitMain /\ [][Next]_vars

----------------------------------------------------------------------------
(* window::Application: the handlers winit calls (winit_window.rs) *)

\* Window events delivered in one run of the model.
MaxWindowEvents == 3

\* What a callback can return.
FrameOutputs == [exit : BOOLEAN, swap_buffers : BOOLEAN, wait_next_event : BOOLEAN]

\* close_requested after a frame, were it assigned the exit flag of the frame
\* whatever it held.
CloseAfterFrameAssigned(requested, output) == output.exit

\* if frame_output.exit { self.close_requested = true; }
CloseAfterFrame(requested, output) == IF output.exit THEN TRUE ELSE requested

\* The event loop runs the Application; render_loop has stored the callback.
WinInit ==
    /\ close_requested = FALSE
    /\ control_flow \in {"Poll", "Wait"}
    /\ loop_exit = FALSE
    /\ frame_output = NoFrameOutput
    /\ swaps = 0
    /\ redraws = 0
    /\ n_window_events = 0
    /\ three_d_screenshot \in BOOLEAN
    /\ call = "-"
    /\ win_pc = "running"

InitWindow == WinInit /\ CwIdle /\ SmIdle /\ MainIdle /\ PickIdle /\ ShIdle

\* winit calls window_event with the event named.
WindowEvent(kind) ==
    /\ win_pc = "running"
    /\ ~loop_exit
    /\ n_window_events < MaxWindowEvents
    /\ n_window_events' = n_window_events + 1
    /\ call' = kind
    /\ UNCHANGED <<cw_vars, sm_vars, main_vars, pick_vars, sh_vars, loop_exit,
                   three_d_screenshot, win_pc>>

\* WindowEvent::Resized(physical_size): the context is resized.
Resized ==
    /\ WindowEvent("Resized")
    /\ UNCHANGED <<close_requested, control_flow, frame_output, swaps, redraws>>

\* WindowEvent::RedrawRequested: the callback is called for a frame; unless it
\* asks to exit the buffers are swapped and the next redraw is arranged.
RedrawRequested ==
    /\ WindowEvent("RedrawRequested")
    /\ \E output \in FrameOutputs :
           /\ frame_output' = output
           /\ close_requested' = CloseAfterFrame(close_requested, output)
           /\ IF output.exit
              THEN UNCHANGED <<swaps, control_flow, redraws>>
              ELSE /\ swaps' = IF output.swap_buffers /\ ~three_d_screenshot
                               THEN swaps + 1 ELSE swaps
                   /\ IF output.wait_next_event
                      THEN control_flow' = "Wait" /\ UNCHANGED redraws
                      ELSE control_flow' = "Poll" /\ redraws' = redraws + 1

\* WindowEvent::CloseRequested => self.close_requested = true
CloseRequested ==
    /\ WindowEvent("CloseRequested")
    /\ close_requested' = TRUE
    /\ UNCHANGED <<control_flow, frame_output, swaps, redraws>>

\* Any other window event: _ => ()
OtherWindowEvent ==
    /\ WindowEvent("Other")
    /\ UNCHANGED <<close_requested, control_flow, frame_output, swaps, redraws>>

\* fn about_to_wait: if self.close_requested { event_loop.exit(); }
AboutToWait ==
    /\ win_pc = "running"
    /\ ~loop_exit
    /\ call' = "about_to_wait"
    /\ loop_exit' = IF close_requested THEN TRUE ELSE loop_exit
    /\ UNCHANGED <<cw_vars, sm_vars, main_vars, pick_vars, sh_vars, close_requested, control_flow,
                   frame_output, swaps, redraws, n_window_events, three_d_screenshot,
                   win_pc>>

\* run_app returns once the exit of the loop was asked for.
LoopExits ==
    /\ win_pc = "running"
    /\ loop_exit
    /\ win_pc' = "exited"
    /\ UNCHANGED <<cw_vars, sm_vars, main_vars, pick_vars, sh_vars, close_requested, control_flow,
                   loop_exit, frame_output, swaps, redraws, n_window_events,
                   three_d_screenshot, call>>

WinNext ==
    \/ Resized
    \/ RedrawRequested
    \/ CloseRequested
    \/ OtherWindowEvent
    \/ AboutToWait
    \/ LoopExits

\* The Application under the event loop.
SpecWindow == InitWindow /\ [][WinNext]_vars

\* The Application under an event loop that goes on calling about_to_wait.
FairSpecWindow == InitWindow /\ [][WinNext]_vars /\ WF_vars(AboutToWait)

----------------------------------------------------------------------------
(* dust::Shader: GL shader objects (shader.rs) *)

\* Calls of gl.CreateShader in one run of the model.
MaxShaders == 4

\* The program makes and drops shaders.
ShInit ==
    /\ gl_created = {}
    /\ gl_deleted = [id \in {} |-> 0]
    /\ shaders = {}
    /\ sh_result = "-"
    /\ sh_pc = "running"

InitShader == ShInit /\ CwIdle /\ SmIdle /\ MainIdle /\ PickIdle /\ WinIdle

\* let id = unsafe { gl.CreateShader(kind) }: an id no object has had.
CreateShader == Cardinality(gl_created) + 1

\* The GL state after CreateShader.
Created(id) ==
    /\ gl_created' = gl_created \cup {id}
    /\ gl_deleted' = [i \in gl_created \cup {id} |-> IF i = id THEN 0 ELSE gl_deleted[i]]

\* Shader::from_source with a source that holds a NUL: CString::new fails and
\* shader_from_source returns before an object is created.
FromSourceNul ==
    /\ sh_pc = "running"
    /\ sh_result' = "FailedToConvertToCString"
    /\ UNCHANGED <<cw_vars, sm_vars, main_vars, pick_vars, win_vars, gl_created, gl_deleted,
                   shaders, sh_pc>>

\* Shader::from_source with a source that compiles: shader_from_source returns
\* Ok(id) and the Shader returned holds the id.
FromSourceOk ==
    /\ sh_pc = "running"
    /\ Cardinality(gl_created) < MaxShaders
    /\ Created(CreateShader)
    /\ shaders' = shaders \cup {CreateShader}
    /\ sh_result' = "Ok"
    /\ UNCHANGED <<cw_vars, sm_vars, main_vars, pick_vars, win_vars, sh_pc>>

\* Shader::from_source with a source that does not compile: COMPILE_STATUS is
\* 0, the log is read and shader_from_source returns
\* Err(FailedToCompileShader); no Shader is made.
FromSourceCompileError ==
    /\ sh_pc = "running"
    /\ Cardinality(gl_created) < MaxShaders
    /\ Created(CreateShader)
    /\ sh_result' = "FailedToCompileShader"
    /\ UNCHANGED <<cw_vars, sm_vars, main_vars, pick_vars, win_vars, shaders, sh_pc>>

\* impl Drop for Shader: gl.DeleteShader(self.id).
DropShader ==
    /\ sh_pc = "running"
    /\ \E id \in shaders :
           /\ gl_deleted' = [gl_deleted EXCEPT ![id] = @ + 1]
           /\ shaders' = shaders \ {id}
    /\ UNCHANGED <<cw_vars, sm_vars, main_vars, pick_vars, win_vars, gl_created, sh_result,
                   sh_pc>>

ShNext ==
    \/ FromSourceNul
    \/ FromSourceOk
    \/ FromSourceCompileError
    \/ DropShader

\* Shaders made from sources and dropped.
SpecShader == InitShader /\ [][ShNext]_vars

----------------------------------------------------------------------------
(* Properties *)

Abs(n) == IF n < 0 THEN -n ELSE n

\* The squared distance of a vertex of the run's mesh to the run's seed point.
SqrDistanceOf(v) == distance2(start_point, position[v])

\* C1 (weight locality): at every step of compute_weights, every key of weights
\* has a squared distance to the seed point strictly below SQR_MAX_DISTANCE.
C1_WeightLocality ==
    \A v \in DOMAIN weights :
        (position[v] - start_point) * (position[v] - start_point) * (One \div 4) < One

\* A finished run that weighted some vertex and left out a neighbour of a
\* weighted vertex because it lies at or beyond the gate.
C1_Witness ==
    /\ cw_pc = "done"
    /\ \E v \in DOMAIN weights :
           \E u \in Neighbours(faces, v) :
               u \notin DOMAIN weights /\ SqrDistanceOf(u) >= SQR_MAX_DISTANCE

\* The variant of the loop: the vertices without a weight, the pending entries
\* whose vertex already has a weight, and the pending entries.
Variant ==
    <<Cardinality(Vertices(faces) \ DOMAIN weights),
      Cardinality({i \in 1..Len(to_be_tested) : to_be_tested[i] \in DOMAIN weights}),
      Len(to_be_tested)>>

\* The lexicographic order on triples of naturals.
LexLess(a, b) ==
    \/ a[1] < b[1]
    \/ a[1] = b[1] /\ a[2] < b[2]
    \/ a[1] = b[1] /\ a[2] = b[2] /\ a[3] < b[3]

\* C2 (termination): every pending entry is a vertex of the mesh, so an
\* iteration can always be taken; an iteration on the empty stack returns, and
\* every other iteration makes the variant (a triple of naturals) strictly
\* smaller in the lexicographic order, which cannot go on forever: the loop
\* ends and compute_weights returns.
C2_Termination ==
    /\ [](\A i \in 1..Len(to_be_tested) : to_be_tested[i] \in Vertices(faces))
    /\ [][cw_pc = "loop" =>
             IF to_be_tested = <<>>
             THEN cw_pc' = "done"
             ELSE cw_pc' = "loop" /\ LexLess(Variant', Variant)]_vars

\* A run that returned although some vertex was on the stack more than once.
C2_Witness ==
    /\ cw_pc = "done"
    /\ \E v \in DOMAIN visits : visits[v] >= 2

\* C3 (order independence): whichever pending vertex is taken next and in
\* whatever order the neighbours are yielded, the returned mapping is the one
\* the stack discipline with ascending neighbours returns.
C3_OrderIndependence ==
    cw_pc = "done" =>
        weights = compute_weights(faces, position, start_vertex_id, start_point)

\* A finished run over at least three weighted vertices, one of them taken from
\* the work list twice, with a weight that is not zero.
C3_Witness ==
    /\ cw_pc = "done"
    /\ Cardinality(DOMAIN weights) >= 3
    /\ \E v \in DOMAIN weights : visits[v] >= 2 /\ weights[v] # 0

\* The tetrahedron of the scenario: every pair of vertices adjacent, the seed
\* point at the seed vertex, every other vertex 0.5 away from it.
TetrahedronScenario ==
    /\ IsTetrahedron(faces)
    /\ position[start_vertex_id] = start_point
    /\ \A u \in Vertices(faces) \ {start_vertex_id} : SqrDistanceOf(u) = One \div 4

\* C7 (tetrahedron scenario): the run returns a weight for all four vertices;
\* the factor on the seed's unit normal is exactly 1.0 and the factor on each
\* neighbour's unit normal is below 1.0.
C7_Tetrahedron ==
    (cw_pc = "done" /\ TetrahedronScenario) =>
        /\ DOMAIN weights = Vertices(faces)
        /\ Abs(weights[start_vertex_id]) = WOne
        /\ \A u \in Vertices(faces) \ {start_vertex_id} : Abs(weights[u]) < WOne

C7_Witness ==
    /\ cw_pc = "done"
    /\ TetrahedronScenario
    /\ Cardinality(DOMAIN weights) = 4
    /\ \A u \in DOMAIN weights : weights[u] # 0

\* 4 * EPSILON of the modelled format (EPSILON = 2^-(Precision-1)), counted in
\* the unit of the falloff's result.
RoundingSlack == Pow2(2 * Precision + 3)

\* C8 as stated (falloff monotonicity): on [0, 1) the falloff is non-increasing,
\* it is 1 at 0 and it lies in (0, 1].
C8_AsStated ==
    sm_pc = "done" =>
        /\ (sqr_d1 < sqr_d2 /\ sqr_d2 < One) => w1 >= w2
        /\ sqr_d1 = 0 => w1 = WOne
        /\ sqr_d1 < One => (0 < w1 /\ w1 <= WOne)

\* C8 as amended: the falloff is 1 at 0, lies in [0, 1] on [0, 1) and is
\* non-increasing up to rounding: a larger squared distance never gives a
\* falloff more than 4 * EPSILON above that of a smaller one.
C8_FalloffUpToRounding ==
    sm_pc = "done" =>
        /\ (sqr_d1 < sqr_d2 /\ sqr_d2 < One) => w1 + RoundingSlack >= w2
        /\ sqr_d1 = 0 => w1 = WOne
        /\ sqr_d1 < One => (0 <= w1 /\ w1 <= WOne)

\* The falloff was evaluated at two squared distances 0 < d1 < d2 < 1 and the
\* rounded results are in the inverted order.
C8_Witness ==
    /\ sm_pc = "done"
    /\ 0 < sqr_d1 /\ sqr_d1 < sqr_d2 /\ sqr_d2 < One
    /\ w1 < w2

\* C9 as stated: no vertex passes the gate (is inserted and expanded) twice.
C9_AsStated == \A v \in DOMAIN visits : visits[v] <= 1

\* C9 as amended: an entry of weights, once stored, is never removed and never
\* changes (a repeated insert stores the same value), and a vertex that has a
\* weight is never pushed again.
C9_StoredOnce ==
    [][\A v \in DOMAIN weights :
           /\ v \in DOMAIN weights'
           /\ weights'[v] = weights[v]
           /\ Count(to_be_tested', v) <= Count(to_be_tested, v)]_vars

\* A vertex with a weight that is not zero has been inserted twice.
C9_Witness ==
    \E v \in DOMAIN weights : visits[v] >= 2 /\ weights[v] # 0

\* C10 (gate on the seed): a seed at or beyond the gate gives an empty mapping
\* and no neighbour is enumerated, and a vertex at squared distance exactly 1.0
\* never gets a weight.
C10_GateOnSeed ==
    /\ (cw_pc \in {"loop", "done"} /\ SqrDistanceOf(start_vertex_id) >= One) =>
           /\ weights = EmptyMap
           /\ \A v \in DOMAIN visits : visits[v] = 0
           /\ \A i \in 1..Len(to_be_tested) : to_be_tested[i] = start_vertex_id
    /\ \A v \in Vertices(faces) : SqrDistanceOf(v) = One => v \notin DOMAIN weights

\* A finished run whose seed lies at squared distance exactly 1.0 while a
\* neighbour of the seed lies within the gate.
C10_Witness ==
    /\ cw_pc = "done"
    /\ SqrDistanceOf(start_vertex_id) = One
    /\ \E u \in Neighbours(faces, start_vertex_id) : SqrDistanceOf(u) < One
    /\ weights = EmptyMap

\* The step is the handler of one event.
Handled == n_events' = n_events + 1

\* The step is the handler of a MouseMotion event met with weights.
MorphStep == Handled /\ event'.kind = "MouseMotion" /\ main_weights.is_some

\* C4: on_morph calls move_vertex_by once for every key of weights, with the
\* displacement weight * factor, and for no other vertex; the position of a
\* vertex that is not a key and the topology stay as they are.
C4_OnMorph ==
    [][/\ faces' = faces
       /\ MorphStep =>
              \A v \in Vertices(faces) :
                  IF v \in DOMAIN main_weights.map
                  THEN /\ move_calls'[v] = 1
                       /\ (position'[v] - position[v]) * WOne
                              = main_weights.map[v] * Factor(event'.delta)
                  ELSE /\ move_calls'[v] = 0
                       /\ position'[v] = position[v]]_vars

\* A morph has displaced a vertex by a weight below 1.0 and left another
\* vertex alone.
C4_Witness ==
    /\ event.kind = "MouseMotion"
    /\ main_weights.is_some
    /\ \E v \in DOMAIN main_weights.map :
           /\ move_calls[v] = 1
           /\ Abs(main_weights.map[v]) \notin {0, WOne}
           /\ position[v] # MainPosition(faces)[v]
    /\ \E u \in Vertices(faces) :
           /\ move_calls[u] = 0
           /\ position[u] = MainPosition(faces)[u]

\* C5 as stated: whenever main runs, and so at the start of every render
\* pass, the model holds the values of positions_buffer and normals_buffer.
C5_AsStated ==
    main_pc \in {"shadow_pass", "geometry_pass", "light_pass"} =>
        /\ model_positions = positions_buffer(faces, position)
        /\ model_normals = normals_buffer(faces, position)

\* C5: between any two handlers, and so at the start of every render pass,
\* the model holds the current positions_buffer and normals_buffer of the mesh,
\* each value converted to f32.
C5_NoStaleGeometry ==
    main_pc \in {"events", "shadow_pass", "geometry_pass", "light_pass"} =>
        /\ model_positions = ToF32(positions_buffer(faces, position))
        /\ model_normals = ToF32(normals_buffer(faces, position))

\* A render pass starts after a morph that changed a position and a normal,
\* and some position is not an f32.
C5_Witness ==
    /\ main_pc = "shadow_pass"
    /\ position # MainPosition(faces)
    /\ normals_buffer(faces, position) # normals_buffer(faces, MainPosition(faces))
    /\ model_positions # positions_buffer(faces, position)

\* The event is a press of the left button.
IsLeftPress(e) == e.kind = "MouseClick" /\ e.button = "Left" /\ e.state = "Pressed"

\* C6: a left press whose ray meets no point of the mesh leaves weights None;
\* while weights is None no step moves a vertex; and weights leaves None only
\* by a left press whose ray meets a point of the mesh.
C6_FailedPick ==
    [][/\ (Handled /\ IsLeftPress(event') /\ event'.hit.kind # "point")
              => main_weights' = None
       /\ ~main_weights.is_some => position' = position
       /\ (~main_weights.is_some /\ main_weights'.is_some)
              => (Handled /\ IsLeftPress(event') /\ event'.hit.kind = "point")]_vars

\* After a press that missed (the camera rotates, weights is None) the mouse
\* has moved and the mesh is where it started.
C6_Witness ==
    /\ event.kind = "MouseMotion"
    /\ event.delta # 0
    /\ rotating
    /\ ~main_weights.is_some
    /\ position = MainPosition(faces)

\* C11: pick returns None exactly when ray_intersection returns no point
\* intersection; otherwise it returns the point hit as it is and a vertex of the
\* primitive hit: one of the three vertices of the face, an end of the
\* half-edge, the vertex itself.
C11_PickVertexOfPrimitive ==
    pick_pc = "done" =>
        /\ pick_result.is_some <=> pick_hit.kind = "point"
        /\ pick_result.is_some =>
               /\ pick_result.point = pick_hit.point
               /\ pick_hit.primitive = "Face" =>
                      /\ pick_hit.face \in faces
                      /\ pick_result.vertex_id \in pick_hit.face
               /\ pick_hit.primitive = "Edge" =>
                      /\ FacesOfEdge(faces, pick_hit.halfedge[1], pick_hit.halfedge[2]) # {}
                      /\ pick_result.vertex_id \in {pick_hit.halfedge[1], pick_hit.halfedge[2]}
               /\ pick_hit.primitive = "Vertex" =>
                      /\ pick_hit.vertex \in Vertices(faces)
                      /\ pick_result.vertex_id = pick_hit.vertex

\* pick has answered a hit of a face with a vertex of the face that lies
\* away from the point hit.
C11_Witness ==
    /\ pick_pc = "done"
    /\ pick_hit.primitive = "Face"
    /\ pick_result.is_some
    /\ pick_result.vertex_id \in pick_hit.face
    /\ position[pick_result.vertex_id] # pick_result.point

\* The vertex lies at a squared distance below 1.0 from the seed point of the run.
WithinGate(v) ==
    (position[v] - start_point) * (position[v] - start_point) * (One \div 4) < One

RECURSIVE GateReach(_)
\* The vertices that can be reached from those of S along edges of the mesh
\* without leaving the gate.
GateReach(S) ==
    LET T == S \cup {u \in Vertices(faces) :
                         /\ WithinGate(u)
                         /\ \E v \in S : u # v /\ FacesOfEdge(faces, u, v) # {}}
    IN  IF T = S THEN S ELSE GateReach(T)

\* The vertices joined to the seed vertex by a path of edges all of whose
\* vertices, the seed and the end included, lie within the gate.
GateConnected == GateReach(IF WithinGate(start_vertex_id) THEN {start_vertex_id} ELSE {})

\* C12: the keys of the mapping compute_weights returns are the vertices
\* joined to the seed vertex by a path of edges whose vertices all lie at a
\* squared distance below 1.0 from the seed point.
C12_ExactResult == cw_pc = "done" => DOMAIN weights = GateConnected

\* A finished run that weighted the seed and left out a vertex that lies
\* within the gate and has no neighbour within the gate.
C12_Witness ==
    /\ cw_pc = "done"
    /\ start_vertex_id \in DOMAIN weights
    /\ \E u \in Vertices(faces) \ DOMAIN weights :
           /\ WithinGate(u)
           /\ \A v \in Vertices(faces) \ {u} :
                  FacesOfEdge(faces, u, v) # {} => ~WithinGate(v)

\* The most recent event of the left button is a press whose ray met a point
\* of the mesh.
LastLeftIsPressHit == last_left.state = "Pressed" /\ last_left.hit = "point"

\* A step of the morph window: only a MouseMotion event met after a press that
\* hit the mesh moves a vertex; a release of the left button leaves weights
\* None; a click of another button leaves weights as it is.
MorphWindowStep ==
    /\ (position' # position) =>
           (Handled /\ event'.kind = "MouseMotion" /\ LastLeftIsPressHit)
    /\ (/\ Handled
        /\ event'.kind = "MouseClick"
        /\ event'.button = "Left"
        /\ event'.state = "Released") =>
           ~main_weights'.is_some
    /\ (/\ Handled
        /\ event'.kind = "MouseClick"
        /\ event'.button # "Left") =>
           main_weights' = main_weights

\* C13 (morph window): weights is Some exactly while the most recent event of
\* the left button is a press whose pick hit the mesh, and every step of main
\* is a step of the morph window.
C13_MorphWindow ==
    /\ [](main_weights.is_some <=> LastLeftIsPressHit)
    /\ [][MorphWindowStep]_vars

\* The left button was pressed on the mesh, the mouse moved and displaced a
\* vertex, and the button was released: weights is None again.
C13_Witness ==
    /\ event.kind = "MouseClick"
    /\ event.button = "Left"
    /\ event.state = "Released"
    /\ position # MainPosition(faces)
    /\ ~main_weights.is_some

\* The step is the handler of a window event.
WindowEventHandled == n_window_events' = n_window_events + 1

\* A step of the Application that keeps the shutdown rules: close_requested
\* is set only by a CloseRequested event or by a frame whose callback returned
\* exit, and is never reset; about_to_wait met with close_requested asks the
\* loop to exit; a frame whose callback returned exit swaps no buffers and asks
\* for no redraw.
ShutdownStep ==
    /\ close_requested => close_requested'
    /\ (~close_requested /\ close_requested') =>
           /\ WindowEventHandled
           /\ \/ call' = "CloseRequested"
              \/ call' = "RedrawRequested" /\ frame_output'.exit
    /\ (WindowEventHandled /\ call' = "CloseRequested") => close_requested'
    /\ (WindowEventHandled /\ call' = "RedrawRequested" /\ frame_output'.exit) =>
           /\ close_requested'
           /\ swaps' = swaps
           /\ redraws' = redraws
    /\ (close_requested /\ call' = "about_to_wait") => loop_exit'

\* C14 (window shutdown): every step keeps the shutdown rules, and with
\* about_to_wait called again and again a close request leads to
\* event_loop.exit().
C14_WindowShutdown ==
    /\ [][ShutdownStep]_vars
    /\ (close_requested ~> loop_exit)

\* The loop has exited after a frame whose callback returned exit together
\* with swap_buffers and without wait_next_event, following a frame that did
\* swap and ask for a redraw.
C14_Witness ==
    /\ win_pc = "exited"
    /\ close_requested
    /\ frame_output.exit /\ frame_output.swap_buffers /\ ~frame_output.wait_next_event
    /\ swaps = 1
    /\ redraws = 1

\* C15 as stated: every shader object CreateShader has returned is held by a
\* Shader that is alive and then not deleted, or is held by none and then
\* deleted exactly once; none is left undeleted without an owner.
C15_NoShaderLeak ==
    \A id \in gl_created :
        IF id \in shaders THEN gl_deleted[id] = 0 ELSE gl_deleted[id] = 1

\* C15, the part that holds: no shader object is deleted more than once, and
\* one held by a Shader that is alive is not deleted.
C15_NoDoubleDelete ==
    \A id \in gl_created :
        /\ gl_deleted[id] <= 1
        /\ id \in shaders => gl_deleted[id] = 0

\* A compilation has failed: the object it created has no owner and was not
\* deleted, while a shader that compiled was dropped and deleted.
C15_Witness ==
    /\ sh_result = "FailedToCompileShader"
    /\ \E id \in gl_created \ shaders : gl_deleted[id] = 0
    /\ \E id \in gl_created \ shaders : gl_deleted[id] = 1

====
